---- MODULE Spec2Model ----
(***************************************************************************)
(* Model of the ai-recipe-suggestions edge function of the food expiry     *)
(* tracker: the on-demand (single-user) request and the scheduled batch    *)
(* sweep of supabase/functions/ai-recipe-suggestions/index.ts, with the    *)
(* ingredient normaliser, the fingerprint, the recipe cache, the           *)
(* notification log (ledger) and the push / email delivery it drives.      *)
(*                                                                         *)
(* Fault model: the generation provider may fail, every push endpoint and  *)
(* the email transport may fail, and an insert into recipe_cache or        *)
(* notification_log may fail (the handler logs it and goes on).  A select  *)
(* from recipe_cache, notification_log, profiles or push_subscriptions     *)
(* returns the rows the table holds, or, in a sweep, the first query of a  *)
(* user's loop body rejects and the per-user catch takes over.             *)
(***************************************************************************)
EXTENDS Naturals, Integers, Sequences, FiniteSets, Bags

----------------------------------------------------------------------------
(* Bounds of the model *)

MaxSweeps == 2
MaxRequests == 4
MaxStoreRequests == 1
MaxNames == 2
MaxEntries == 4
MaxStores == 3
MaxItems == 2

----------------------------------------------------------------------------
(* Text: a string is a sequence of one-character strings *)

\* String.prototype.trim strips white space; a tab stands for the white space
\* that is not a blank
Whitespace == {" ", "\t"}

\* UTF-16 code unit of the characters the item names use (Array.prototype.sort
\* with no comparator orders strings by code unit).
CharCode(c) ==
  CASE c = "\t" -> 9
    [] c = " " -> 32
    [] c = "E" -> 69
    [] c = "M" -> 77
    [] c = "e" -> 101
    [] c = "g" -> 103
    [] c = "i" -> 105
    [] c = "k" -> 107
    [] c = "l" -> 108
    [] c = "m" -> 109
    [] c = "s" -> 115
    [] c = "|" -> 124

LowerChar(c) ==
  CASE c = "E" -> "e"
    [] c = "M" -> "m"
    [] OTHER -> c

ToLowerCase(s) == [i \in 1..Len(s) |-> LowerChar(s[i])]

RECURSIVE TrimStart(_)
TrimStart(s) ==
  IF s # <<>> /\ Head(s) \in Whitespace THEN TrimStart(Tail(s)) ELSE s

RECURSIVE TrimEnd(_)
TrimEnd(s) ==
  IF s # <<>> /\ s[Len(s)] \in Whitespace
    THEN TrimEnd(SubSeq(s, 1, Len(s) - 1))
    ELSE s

Trim(s) == TrimEnd(TrimStart(s))

\* s sorts strictly before t by code unit
RECURSIVE StrLess(_, _)
StrLess(s, t) ==
  IF t = <<>> THEN FALSE
  ELSE IF s = <<>> THEN TRUE
  ELSE IF CharCode(Head(s)) # CharCode(Head(t))
    THEN CharCode(Head(s)) < CharCode(Head(t))
    ELSE StrLess(Tail(s), Tail(t))

\* the members of a set of strings in ascending order
RECURSIVE SortedSeq(_)
SortedSeq(S) ==
  IF S = {} THEN <<>>
  ELSE LET m == CHOOSE x \in S : \A y \in S \ {x} : StrLess(x, y)
       IN  <<m>> \o SortedSeq(S \ {m})

RECURSIVE Join(_, _)
Join(strs, sep) ==
  IF strs = <<>> THEN <<>>
  ELSE IF Len(strs) = 1 THEN strs[1]
  ELSE strs[1] \o sep \o Join(Tail(strs), sep)

Range(f) == {f[i] : i \in DOMAIN f}

----------------------------------------------------------------------------
(* helpers.ts *)

\* (mutant) neither deduplicated nor sorted
buildIngredientList_AsGiven(items) ==
  [i \in 1..Len(items) |-> ToLowerCase(Trim(items[i].name))]

\* items: a sequence of food item records (the rows of one query)
buildIngredientList(items) ==
  LET normalized == [i \in 1..Len(items) |-> ToLowerCase(Trim(items[i].name))]
      unique == Range(normalized)
  IN  SortedSeq(unique)

\* SHA-256 is taken as collision free: the digest is identified with the
\* canonical string it is computed over.
Sha256Hex(bytes) == <<"sha256", bytes>>

generateIngredientHash(ingredients) ==
  LET canonical == Join(ingredients, <<"|">>)
  IN  Sha256Hex(canonical)

\* item names as users type them
Names ==
  {<<"M", "i", "l", "k">>, <<"m", "i", "l", "k", " ">>, <<" ", "e", "g", "g", "s">>,
   <<"E", "g", "g", "s">>, <<"e", "g", "g", "s">>}

\* sequences of at most n item names
NameLists(n) == UNION {[1..k -> Names] : k \in 0..n}

\* food item rows with the given names
ItemsNamed(names) == [i \in 1..Len(names) |-> [name |-> names[i]]]

----------------------------------------------------------------------------
(* The stored data the function works on *)

Users == {"u1", "u2"}
ItemIds == {"i1", "i2", "i3"}
Endpoints == {"e1", "e2", "e3"}
\* invocations of the batch mode that may be at work at once; the scheduler's
\* invocations run one after another in the first
Sweeps == {"s1", "s2"}
Cron == {"s1"}

\* T | null: null is the empty sequence, a value v is <<v>>
Null == <<>>
Some(v) == <<v>>

\* days of the look-ahead window of both queries (today .. today + 3)
WindowDays == 3

\* the documented cap on on-demand requests per user and day; the handler
\* holds no such number
DailyLimit == 3

\* food_items rows: expiry_date is in days from today
ItemRow(i) ==
  CASE i = "i1" -> [id |-> "i1", user_id |-> "u1", name |-> <<"M", "i", "l", "k">>,
                    expiry_date |-> 1]
    [] i = "i2" -> [id |-> "i2", user_id |-> "u1", name |-> <<" ", "e", "g", "g", "s">>,
                    expiry_date |-> 2]
    [] i = "i3" -> [id |-> "i3", user_id |-> "u2", name |-> <<"E", "g", "g", "s">>,
                    expiry_date |-> 0]

\* profiles.email ("" when the user has no address on file)
ProfileEmail(u) == IF u = "u1" THEN "u1@example.org" ELSE ""

\* push_subscriptions.user_id
EndpointUser(e) == IF e = "e3" THEN "u2" ELSE "u1"

\* what the provider adapter can give for one call: an error, or a recipe list
\* (a list of one to three recipes, here of their titles)
RecipeSets == {<<"omelette", "custard", "pancakes">>, <<"frittata">>}
ProviderError == [ok |-> FALSE, recipes |-> <<>>]
ProviderOutcomes == {ProviderError} \cup {[ok |-> TRUE, recipes |-> r] : r \in RecipeSets}

\* the outcomes drawn within sweeps: the error and the one-recipe list
SweepOutcomes == {o \in ProviderOutcomes : Len(o.recipes) <= 1}

\* what web-push can give for one endpoint: delivered, 410 Gone, another error
PushOutcomes == {"ok", "gone", "error"}

\* the credential of an invocation: no Authorization header, an end user's
\* token, the service role key
Credentials == {"none", "user", "service"}

VARIABLES
  status,        \* food_items.status of every item
  enabled,       \* profiles.notification_enabled of every user
  is_active,     \* push_subscriptions.is_active of every endpoint
  recipe_cache,  \* the rows of recipe_cache, oldest first
  notification_log, \* the rows of notification_log, oldest first
  sweep,         \* every batch invocation: its position and local variables
  calls,         \* per sweep: the calls it made for the user it processed last
  tally,         \* per sweep: provider calls and deliveries, counted as made
  received,      \* bag of <<user, hash>>: notifications delivered by sweeps
  started,       \* number of sweeps that went on to process users
  request,       \* the last on-demand request: its response and its calls
  served,        \* per user: on-demand requests that passed the token check
  requests,      \* number of on-demand requests so far
  input,         \* the arguments a helper function is applied to, or null
  output         \* what the helper function returned, or null

vars == <<status, enabled, is_active, recipe_cache, notification_log, sweep,
          calls, tally, received, started, request, served, requests, input, output>>

storeVars == <<status, enabled, is_active, recipe_cache, notification_log>>
batchVars == <<sweep, calls, tally, received, started>>
singleVars == <<request, served, requests>>
pureVars == <<input, output>>

\* What a sweep did for one user: what held when it took the user up (was the
\* user enabled, with a push subscription, an address, a log row for the hash)
\* and how often it called each collaborator since, with what the collaborators
\* gave (the provider's recipes, whether the cache insert failed, the active
\* endpoints before the fan-out and what web-push gave for each, what the
\* email transport gave) and whether the loop body threw.
NoCalls ==
  [user |-> "", notifEnabled |-> FALSE, hasPush |-> FALSE, hasEmail |-> FALSE,
   ingredients |-> <<>>, hash |-> <<>>, hadEntry |-> FALSE, hadCache |-> FALSE,
   threw |-> FALSE, lookup |-> 0, provider |-> 0, providerFailed |-> FALSE,
   generated |-> <<>>, store |-> 0, storeFailed |-> FALSE,
   activeBefore |-> {}, out |-> <<>>, emailOk |-> FALSE,
   pushNormal |-> 0, pushFallback |-> 0, emailNormal |-> 0, emailFallback |-> 0,
   logAttempt |-> 0, logged |-> 0, delivered |-> FALSE]

NoTally == [provider |-> 0, providerFailed |-> 0, pushOk |-> 0, emailOk |-> 0]

IdleSweep ==
  [pc |-> "idle", cred |-> "", queried |-> FALSE, items |-> <<>>, todo |-> <<>>,
   cur |-> Null, metrics |-> <<>>, response |-> Null]

\* The last on-demand request: who sent it, the response, and what the handler
\* saw and called (rows the item query gave, the hash, whether recipe_cache
\* held a row for it, the calls made).
NoRequest ==
  [user |-> "", status |-> 0, body |-> Null, queried |-> FALSE, fetched |-> FALSE, rows |-> 0,
   hash |-> <<>>, hadCache |-> FALSE, lookup |-> 0, provider |-> 0,
   providerFailed |-> FALSE, generated |-> <<>>, store |-> 0, storeFailed |-> FALSE]

\* the tables and the handler's variables before any invocation
Quiet ==
  /\ status = [i \in ItemIds |-> "active"]
  /\ is_active = [e \in Endpoints |-> TRUE]
  /\ recipe_cache = <<>>
  /\ notification_log = <<>>
  /\ sweep = [s \in Sweeps |-> IdleSweep]
  /\ calls = [s \in Sweeps |-> NoCalls]
  /\ tally = [s \in Sweeps |-> NoTally]
  /\ received = EmptyBag
  /\ started = 0
  /\ request = NoRequest
  /\ served = [u \in Users |-> 0]
  /\ requests = 0

Init ==
  /\ Quiet
  /\ enabled \in [Users -> BOOLEAN]
  /\ input = Null
  /\ output = Null

----------------------------------------------------------------------------
(* Queries *)

\* rows ordered by expiry_date ascending
RECURSIVE OrderByExpiry(_)
OrderByExpiry(S) ==
  IF S = {} THEN <<>>
  ELSE LET m == CHOOSE x \in S : \A y \in S : ItemRow(x).expiry_date <= ItemRow(y).expiry_date
       IN  <<ItemRow(m)>> \o OrderByExpiry(S \ {m})

InWindow(i) == ItemRow(i).expiry_date >= 0 /\ ItemRow(i).expiry_date <= WindowDays

\* all active items expiring within the window (batch query)
ExpiringItems ==
  OrderByExpiry({i \in ItemIds : status[i] = "active" /\ InWindow(i)})

\* one user's active items expiring within the window (on-demand query)
UserExpiringItems(u) ==
  OrderByExpiry({i \in ItemIds : /\ ItemRow(i).user_id = u
                                  /\ status[i] = "active"
                                  /\ InWindow(i)})

\* itemsByUser[u]
ItemsOfUser(items, u) ==
  LET Mine(it) == it.user_id = u
  IN  SelectSeq(items, Mine)

\* the keys of itemsByUser in insertion order
RECURSIVE UserOrder(_)
UserOrder(items) ==
  IF items = <<>> THEN <<>>
  ELSE LET rest == UserOrder(SubSeq(items, 1, Len(items) - 1))
           u == items[Len(items)].user_id
       IN  IF u \in Range(rest) THEN rest ELSE Append(rest, u)

\* (mutant) the query does not ask for is_active
ActiveSubscriptions_All(u) == {e \in Endpoints : EndpointUser(e) = u}

\* the user's active push subscriptions
ActiveSubscriptions(u) == {e \in Endpoints : EndpointUser(e) = u /\ is_active[e]}

ItemIdsOf(items) == {items[i].id : i \in 1..Len(items)}

----------------------------------------------------------------------------
(* cache.ts *)

CacheRows(cache, hash) ==
  LET Match(row) == row.ingredient_hash = hash
  IN  SelectSeq(cache, Match)

\* (mutant) the lookup never finds a row
checkCache_Miss(cache, hash) == Null

\* (mutant) the oldest row for the hash is served
checkCache_Oldest(cache, hash) ==
  LET rows == CacheRows(cache, hash)
  IN  IF rows = <<>> THEN Null ELSE Some(rows[1].recipes)

\* the recipes of the most recently created row for the hash, or null
checkCache(cache, hash) ==
  LET rows == CacheRows(cache, hash)
  IN  IF rows = <<>> THEN Null ELSE Some(rows[Len(rows)].recipes)

\* (mutant) a failed insert is thrown to the caller
storeInCacheThrows_OnError(ok) == ~ok

\* whether storeInCache throws: the insert's error is logged and not thrown
storeInCacheThrows(ok) == FALSE

\* the table after the insert; a failed insert (ok = FALSE) is only logged
storeInCache(cache, hash, ingredients, recipes, ok) ==
  IF ok
    THEN Append(cache, [ingredient_hash |-> hash, ingredients |-> ingredients,
                        recipes |-> recipes])
    ELSE cache

----------------------------------------------------------------------------
(* index.ts: on-demand (single-user) mode *)

JsonBody(error, recipes, ingredients, cached, message) ==
  [error |-> error, recipes |-> recipes, ingredients |-> ingredients,
   cached |-> cached, message |-> message]

ErrorBody(error) == JsonBody(error, <<>>, <<>>, FALSE, "")

\* (mutant) the empty response claims to come from the cache
EmptyResult_Cached(message) ==
  [status |-> 200, body |-> JsonBody("", <<>>, <<>>, TRUE, message)]

\* the 200 response that carries no recipes
EmptyResult(message) ==
  [status |-> 200, body |-> JsonBody("", <<>>, <<>>, FALSE, message)]

\* (mutant) the outer catch answers 200
HardFailure_Ok(message) == [status |-> 200, body |-> ErrorBody(message)]

\* the response of the outer catch
HardFailure(message) == [status |-> 500, body |-> ErrorBody(message)]

\* the response that carries recipes
RecipeResult(recipes, ingredients, cached) ==
  [status |-> 200, body |-> JsonBody("", recipes, ingredients, cached, "")]

\* One request of user u with body {mode: 'single'}.  cred is the credential
\* sent, queryOk whether the food_items query succeeds, ai what the provider
\* adapter gives if it is called, storeOk whether the cache insert succeeds.
\* The handler reads body.mode and nothing else of the body.
HandleSingle(u, cred, queryOk, ai, storeOk) ==
  /\ requests < MaxRequests
  /\ requests' = requests + 1
  /\ UNCHANGED <<status, enabled, is_active, notification_log, batchVars>>
  /\ LET userItems == UserExpiringItems(u)
         ingredients == buildIngredientList(userItems)
         hash == generateIngredientHash(ingredients)
         hit == checkCache(recipe_cache, hash)
         held == \E k \in 1..Len(recipe_cache) : recipe_cache[k].ingredient_hash = hash
         Reply(res, seen) ==
           request' = [seen EXCEPT !.user = u, !.status = res.status,
                                   !.body = Some(res.body)]
         queried == [NoRequest EXCEPT !.queried = TRUE]
         found == [queried EXCEPT !.fetched = TRUE, !.rows = Len(userItems)]
         looked == [found EXCEPT !.hash = hash, !.hadCache = held, !.lookup = 1]
     IN
     IF cred = "none" THEN
       /\ Reply([status |-> 401, body |-> ErrorBody("Unauthorized")], NoRequest)
       /\ UNCHANGED <<recipe_cache, served>>
     ELSE IF cred # "user" THEN
       /\ Reply([status |-> 401, body |-> ErrorBody("Invalid token")], NoRequest)
       /\ UNCHANGED <<recipe_cache, served>>
     ELSE
       /\ served' = [served EXCEPT ![u] = @ + 1]
       /\ IF ~queryOk THEN
            /\ Reply(HardFailure("Failed to fetch items"), queried)
            /\ UNCHANGED recipe_cache
          ELSE IF Len(userItems) = 0 THEN
            /\ Reply(EmptyResult("No items expiring in the next 3 days"), found)
            /\ UNCHANGED recipe_cache
          ELSE IF Len(ingredients) = 0 THEN
            /\ Reply(EmptyResult("No valid ingredients found"), found)
            /\ UNCHANGED recipe_cache
          ELSE IF hit # Null THEN
            /\ Reply(RecipeResult(hit[1], ingredients, TRUE), looked)
            /\ UNCHANGED recipe_cache
          ELSE IF ~ai.ok THEN
            /\ Reply(HardFailure("OpenAI error"),
                     [looked EXCEPT !.provider = 1, !.providerFailed = TRUE])
            /\ UNCHANGED recipe_cache
          ELSE IF storeInCacheThrows(storeOk) THEN
            /\ Reply(HardFailure("Failed to store recipe cache"),
                     [looked EXCEPT !.provider = 1, !.generated = ai.recipes,
                                    !.store = 1, !.storeFailed = TRUE])
            /\ UNCHANGED recipe_cache
          ELSE
            /\ recipe_cache' = storeInCache(recipe_cache, hash, ingredients, ai.recipes,
                                            storeOk)
            /\ Reply(RecipeResult(ai.recipes, ingredients, FALSE),
                     [looked EXCEPT !.provider = 1, !.generated = ai.recipes,
                                    !.store = 1, !.storeFailed = ~storeOk])

SingleRequest(u, cred, queryOk, ai, storeOk) ==
  /\ HandleSingle(u, cred, queryOk, ai, storeOk)
  /\ UNCHANGED pureVars

\* The user marks an item as used: it leaves the active items.  A sweep reads
\* food_items once, when it starts, so a change made while a sweep runs acts as
\* one made after it: only the latter is modelled.
UseItem(i) ==
  /\ status[i] = "active"
  /\ \A s \in Sweeps : sweep[s].pc = "idle"
  /\ status' = [status EXCEPT ![i] = "used"]
  /\ UNCHANGED <<enabled, is_active, recipe_cache, notification_log, batchVars,
                 singleVars, pureVars>>

NextSingle ==
  \/ \E u \in Users, cred \in Credentials, queryOk \in BOOLEAN,
        ai \in ProviderOutcomes, storeOk \in BOOLEAN :
       SingleRequest(u, cred, queryOk, ai, storeOk)
  \/ \E i \in ItemIds : UseItem(i)

SpecSingle == Init /\ [][NextSingle]_vars

\* what RecipeSuggestions.handleGetRecipes puts into the body next to mode:
\* expiryDays, and itemIds when items are selected
RequestWindows == {1, WindowDays, 7}
RequestItemIds == {Null} \cup {Some(S) : S \in SUBSET ItemIds \ {{}}}

\* One request of a signed-in user as the client sends it; input keeps the
\* body that was sent.
BodyRequest(u, itemIds, expiryDays, ai) ==
  /\ requests < MaxStoreRequests
  /\ input' = Some([mode |-> "single", expiryDays |-> expiryDays, itemIds |-> itemIds])
  /\ output' = output
  /\ HandleSingle(u, "user", TRUE, ai, TRUE)

NextBody ==
  \/ \E u \in Users, itemIds \in RequestItemIds, expiryDays \in RequestWindows,
        ai \in ProviderOutcomes :
       BodyRequest(u, itemIds, expiryDays, ai)
  \/ \E i \in ItemIds : requests = 0 /\ UseItem(i)

SpecBody == Init /\ [][NextBody]_vars

----------------------------------------------------------------------------
(* notifications.ts *)

\* The fan-out to the endpoints subs, out[e] being what web-push gives for e:
\* the number of endpoints that succeeded and the endpoints to deactivate.
\* (mutant) every attempt is counted as a success
sendPushNotifications_CountsAttempts(subs, out) ==
  [successCount |-> Cardinality(subs), gone |-> {e \in subs : out[e] = "gone"}]

\* (mutant) endpoints are deactivated only when the fan-out got through
sendPushNotifications_GoneOnSuccess(subs, out) ==
  [successCount |-> Cardinality({e \in subs : out[e] = "ok"}),
   gone |-> IF \E e \in subs : out[e] = "ok" THEN {e \in subs : out[e] = "gone"} ELSE {}]

\* what the fan-out to the subscriptions subs gives when web-push answers
\* out[e] for endpoint e: the number of successes, and the endpoints that
\* answered 410 Gone, which are set inactive
sendPushNotifications(subs, out) ==
  [successCount |-> Cardinality({e \in subs : out[e] = "ok"}),
   gone |-> {e \in subs : out[e] = "gone"}]

\* sendEmail is the transport's answer (errors are caught and give false)
sendEmail(to, ok) == ok

----------------------------------------------------------------------------
(* index.ts: batch (cron) mode *)

\* (mutant) the dedup query asks for the category of the expiry reminders
alreadyNotified_WrongType(log, userId, hash) ==
  LET Match(row) == /\ row.user_id = userId
                    /\ row.notification_type = "expiry_reminder"
                    /\ row.ingredient_hash = hash
  IN  SelectSeq(log, Match)

\* the dedup query on notification_log: the rows found (limit 1 is left out)
alreadyNotified(log, userId, hash) ==
  LET Match(row) == /\ row.user_id = userId
                    /\ row.notification_type = "recipe_suggestion"
                    /\ row.ingredient_hash = hash
  IN  SelectSeq(log, Match)

\* (mutant) the row is written without its ingredient_hash
LogRow_NoHash(userId, items, hash) ==
  [user_id |-> userId, notification_type |-> "recipe_suggestion",
   food_item_ids |-> ItemIdsOf(items), ingredient_hash |-> <<>>, status |-> "sent"]

LogRow(userId, items, hash) ==
  [user_id |-> userId, notification_type |-> "recipe_suggestion",
   food_item_ids |-> ItemIdsOf(items), ingredient_hash |-> hash, status |-> "sent"]

\* an error text is the sequence of its parts, <<>> when there is none
AIFailedError == <<"AI failed", ", sent fallback: ", "OpenAI error">>
StartsWithAIFailed(error) == error # <<>> /\ error[1] = "AI failed"
StartsWithFallback(method) == method \in {"fallback_push", "fallback_email"}

Metric(userId, ingredientCount, cacheHit, method, error) ==
  [userId |-> userId, ingredientCount |-> ingredientCount, cacheHit |-> cacheHit,
   notificationMethod |-> method, error |-> error]

BatchBody(st, error, message) ==
  [status |-> st, error |-> error, message |-> message, totalItems |-> 0,
   usersProcessed |-> 0, totalAICalls |-> 0, totalCacheHits |-> 0,
   totalPushSent |-> 0, totalEmailSent |-> 0, totalFallbacks |-> 0,
   totalErrors |-> 0, results |-> <<>>]

\* (mutant) every entry that has an error is counted
TotalErrors_AnyError(metrics) ==
  LET Error(m) == m.error # <<>>
  IN  Len(SelectSeq(metrics, Error))

TotalErrors(metrics) ==
  LET Error(m) == m.error # <<>> /\ ~StartsWithAIFailed(m.error)
  IN  Len(SelectSeq(metrics, Error))

\* the summary response of a sweep over expiringItems with per-user metrics
Summary(expiringItems, metrics) ==
  LET AICall(m) == ~m.cacheHit /\ ~StartsWithAIFailed(m.error)
      CacheHit(m) == m.cacheHit
      PushSent(m) == m.notificationMethod = "push"
      EmailSent(m) == m.notificationMethod = "email"
      Fallback(m) == StartsWithFallback(m.notificationMethod)
  IN  [status |-> 200, error |-> "", message |-> "AI recipe suggestions processed",
       totalItems |-> Len(expiringItems),
       usersProcessed |-> Len(UserOrder(expiringItems)),
       totalAICalls |-> Len(SelectSeq(metrics, AICall)),
       totalCacheHits |-> Len(SelectSeq(metrics, CacheHit)),
       totalPushSent |-> Len(SelectSeq(metrics, PushSent)),
       totalEmailSent |-> Len(SelectSeq(metrics, EmailSent)),
       totalFallbacks |-> Len(SelectSeq(metrics, Fallback)),
       totalErrors |-> TotalErrors(metrics),
       results |-> metrics]

\* (mutant) any bearer token opens batch mode
batchAuth_AnyToken(cred) ==
  IF cred = "none" THEN "Unauthorized" ELSE ""

\* the credential checks of batch mode: the error they answer with, "" if none
batchAuth(cred) ==
  IF cred = "none" THEN "Unauthorized"
  ELSE IF cred # "service" THEN "Forbidden: batch mode requires service role key"
  ELSE ""

\* the per-user catch records the message of what was thrown
UserError == <<"fetch failed">>

\* An invocation with no body.  cred is the credential sent, queryOk whether
\* the food_items query succeeds.  Sweeps run one after another.
BeginSweep(s, cred, queryOk) ==
  /\ started < MaxSweeps
  /\ sweep[s].pc = "idle"
  /\ calls' = [calls EXCEPT ![s] = NoCalls]
  /\ tally' = [tally EXCEPT ![s] = NoTally]
  /\ UNCHANGED <<storeVars, received, singleVars, pureVars>>
  /\ LET expiringItems == ExpiringItems
         Return(body, queried) ==
           /\ sweep' = [sweep EXCEPT ![s] = [IdleSweep EXCEPT !.pc = "done",
                                                              !.cred = cred,
                                                              !.queried = queried,
                                                              !.response = Some(body)]]
           /\ UNCHANGED started
     IN
     IF batchAuth(cred) = "Unauthorized" THEN
       Return(BatchBody(401, batchAuth(cred), ""), FALSE)
     ELSE IF batchAuth(cred) # "" THEN
       Return(BatchBody(403, batchAuth(cred), ""), FALSE)
     ELSE IF ~queryOk THEN
       Return(BatchBody(500, "Failed to fetch expiring items", ""), TRUE)
     ELSE IF Len(expiringItems) = 0 THEN
       Return(BatchBody(200, "", "No expiring items found"), TRUE)
     ELSE
       /\ sweep' = [sweep EXCEPT ![s] = [IdleSweep EXCEPT !.pc = "users",
                                                          !.cred = cred,
                                                          !.queried = TRUE,
                                                          !.items = expiringItems,
                                                          !.todo = UserOrder(expiringItems)]]
       /\ started' = started + 1

\* an invocation that starts when no other is at work
StartSweep(s, cred, queryOk) ==
  /\ \A t \in Sweeps : sweep[t].pc = "idle"
  /\ BeginSweep(s, cred, queryOk)

NextUser(sw) == [sw EXCEPT !.pc = "users", !.todo = Tail(@), !.cur = Null]

\* (mutant) no per-user try: what is thrown reaches the outer catch
catchUserError_Escapes(sw, userId) ==
  [sw EXCEPT !.pc = "done", !.cur = Null,
             !.response = Some(BatchBody(500, "fetch failed", ""))]

\* the per-user catch: the error goes into the metrics, the loop goes on
catchUserError(sw, userId) ==
  NextUser([sw EXCEPT !.metrics = Append(@, Metric(userId, 0, FALSE, "", UserError))])

\* The loop body for the next user up to the point where a payload is ready:
\* profile and subscriptions, ingredient list and hash, dedup query, cache
\* lookup, provider call and cache insert.  ai is what the provider adapter
\* gives if it is called, storeOk whether the cache insert succeeds.  throws:
\* the first query of the loop body rejects, and the per-user catch takes over.
BatchPrepare(s, throws, ai, storeOk) ==
  /\ sweep[s].pc = "users"
  /\ sweep[s].todo # <<>>
  /\ UNCHANGED <<status, enabled, is_active, notification_log, received, started,
                 singleVars, pureVars>>
  /\ LET userId == Head(sweep[s].todo)
         items == ItemsOfUser(sweep[s].items, userId)
         subscriptions == ActiveSubscriptions(userId)
         hasPush == subscriptions # {}
         hasEmail == ProfileEmail(userId) # ""
         ingredients == buildIngredientList(items)
         hash == generateIngredientHash(ingredients)
         hit == checkCache(recipe_cache, hash)
         Continue == sweep' = [sweep EXCEPT ![s] = NextUser(@)]
         taken == [NoCalls EXCEPT !.user = userId,
                                  !.notifEnabled = enabled[userId],
                                  !.hasPush =
                                     \E e \in Endpoints :
                                       EndpointUser(e) = userId /\ is_active[e],
                                  !.hasEmail = hasEmail,
                                  !.ingredients = ingredients,
                                  !.hash = hash,
                                  !.hadEntry =
                                     \E k \in 1..Len(notification_log) :
                                       /\ notification_log[k].user_id = userId
                                       /\ notification_log[k].notification_type
                                            = "recipe_suggestion"
                                       /\ notification_log[k].ingredient_hash = hash,
                                  !.hadCache =
                                     \E k \in 1..Len(recipe_cache) :
                                       recipe_cache[k].ingredient_hash = hash]
         Deliver(kind, recipes, cacheHit) ==
           sweep' = [sweep EXCEPT ![s].pc = "deliver",
                                  ![s].cur = Some([userId |-> userId,
                                                   subscriptions |-> subscriptions,
                                                   hasPush |-> hasPush,
                                                   hasEmail |-> hasEmail,
                                                   items |-> items,
                                                   ingredients |-> ingredients,
                                                   hash |-> hash,
                                                   kind |-> kind,
                                                   recipes |-> recipes,
                                                   cacheHit |-> cacheHit,
                                                   notificationMethod |-> "",
                                                   sent |-> FALSE])]
     IN
     IF throws THEN
       /\ sweep' = [sweep EXCEPT ![s] = catchUserError(@, userId)]
       /\ calls' = [calls EXCEPT ![s] = [taken EXCEPT !.threw = TRUE]]
       /\ UNCHANGED <<recipe_cache, tally>>
     ELSE IF ~enabled[userId] THEN
       /\ Continue
       /\ calls' = [calls EXCEPT ![s] = taken]
       /\ UNCHANGED <<recipe_cache, tally>>
     ELSE IF ~hasPush /\ ~hasEmail THEN
       /\ Continue
       /\ calls' = [calls EXCEPT ![s] = taken]
       /\ UNCHANGED <<recipe_cache, tally>>
     ELSE IF Len(ingredients) = 0 THEN
       /\ Continue
       /\ calls' = [calls EXCEPT ![s] = taken]
       /\ UNCHANGED <<recipe_cache, tally>>
     ELSE IF Len(alreadyNotified(notification_log, userId, hash)) > 0 THEN
       /\ Continue
       /\ calls' = [calls EXCEPT ![s] = taken]
       /\ UNCHANGED <<recipe_cache, tally>>
     ELSE IF hit # Null THEN
       /\ Deliver("normal", hit[1], TRUE)
       /\ calls' = [calls EXCEPT ![s] = [taken EXCEPT !.lookup = 1]]
       /\ UNCHANGED <<recipe_cache, tally>>
     ELSE IF ~ai.ok THEN
       /\ Deliver("fallback", <<>>, FALSE)
       /\ calls' = [calls EXCEPT ![s] = [taken EXCEPT !.lookup = 1, !.provider = 1,
                                                      !.providerFailed = TRUE]]
       /\ tally' = [tally EXCEPT ![s].provider = @ + 1, ![s].providerFailed = @ + 1]
       /\ UNCHANGED recipe_cache
     ELSE IF storeInCacheThrows(storeOk) THEN
       /\ Deliver("fallback", <<>>, FALSE)
       /\ calls' = [calls EXCEPT ![s] = [taken EXCEPT !.lookup = 1, !.provider = 1,
                                                      !.generated = ai.recipes,
                                                      !.store = 1,
                                                      !.storeFailed = TRUE]]
       /\ tally' = [tally EXCEPT ![s].provider = @ + 1]
       /\ UNCHANGED recipe_cache
     ELSE
       /\ Deliver("normal", ai.recipes, FALSE)
       /\ recipe_cache' = storeInCache(recipe_cache, hash, ingredients, ai.recipes, storeOk)
       /\ calls' = [calls EXCEPT ![s] = [taken EXCEPT !.lookup = 1, !.provider = 1,
                                                      !.generated = ai.recipes,
                                                      !.store = 1,
                                                      !.storeFailed = ~storeOk]]
       /\ tally' = [tally EXCEPT ![s].provider = @ + 1]

\* (mutant) the email branch is missing
Channel_PushOnly(hasPush, hasEmail) ==
  IF hasPush THEN "push" ELSE "none"

\* (mutant) the push branch is missing
Channel_EmailOnly(hasPush, hasEmail) ==
  IF hasEmail THEN "email" ELSE "none"

\* (mutant) email is preferred to push
Channel_EmailFirst(hasPush, hasEmail) ==
  IF hasEmail THEN "email" ELSE IF hasPush THEN "push" ELSE "none"

\* the channel a payload goes out on: push if the user has an active
\* subscription, else email if there is an address, else none
Channel(hasPush, hasEmail) ==
  IF hasPush THEN "push" ELSE IF hasEmail THEN "email" ELSE "none"

CurSubscriptions(s) ==
  IF sweep[s].pc = "deliver" THEN sweep[s].cur[1].subscriptions ELSE {}

\* Delivery of the payload that is ready (normal or fallback).  out[e] is what
\* web-push gives for endpoint e, emailOk what the email transport gives.
BatchDeliver(s, out, emailOk) ==
  /\ sweep[s].pc = "deliver"
  /\ UNCHANGED <<status, enabled, recipe_cache, notification_log, started, singleVars, pureVars>>
  /\ LET cur == sweep[s].cur[1]
         userId == cur.userId
         channel == Channel(cur.hasPush, cur.hasEmail)
         push == sendPushNotifications(cur.subscriptions, out)
         sent == CASE channel = "push" -> push.successCount > 0
                   [] channel = "email" -> sendEmail(ProfileEmail(userId), emailOk)
                   [] OTHER -> FALSE
         method == IF cur.kind = "fallback"
                     THEN (IF channel = "email" THEN "fallback_email" ELSE "fallback_push")
                     ELSE (IF channel = "email" THEN "email" ELSE "push")
         field == IF cur.kind = "fallback"
                    THEN (IF channel = "push" THEN "pushFallback" ELSE "emailFallback")
                    ELSE (IF channel = "push" THEN "pushNormal" ELSE "emailNormal")
         normalMetric == Metric(userId, Len(cur.ingredients), cur.cacheHit, method, <<>>)
         fallbackMetric == Metric(userId, Len(cur.ingredients), FALSE, method, AIFailedError)
         pushed == IF cur.kind = "normal" /\ channel # "none"
                     THEN Append(sweep[s].metrics, normalMetric)
                     ELSE IF cur.kind = "fallback" /\ ~sent
                       THEN Append(sweep[s].metrics, fallbackMetric)
                       ELSE sweep[s].metrics
     IN
     /\ is_active' = IF channel = "push"
                       THEN [e \in Endpoints |-> is_active[e] /\ e \notin push.gone]
                       ELSE is_active
     /\ calls' = IF channel = "none"
                   THEN calls
                   ELSE [calls EXCEPT ![s][field] = @ + 1,
                                      ![s].activeBefore = {e \in Endpoints : is_active[e]},
                                      ![s].out = IF channel = "push" THEN out ELSE <<>>,
                                      ![s].emailOk = channel = "email" /\ emailOk,
                                      ![s].delivered =
                                         \/ channel = "push" /\ \E e \in DOMAIN out : out[e] = "ok"
                                         \/ channel = "email" /\ emailOk]
     /\ received' = IF sent THEN received (+) SetToBag({<<userId, cur.hash>>})
                            ELSE received
     /\ tally' = IF sent /\ cur.kind = "normal"
                   THEN [tally EXCEPT ![s][IF channel = "push" THEN "pushOk"
                                                              ELSE "emailOk"] = @ + 1]
                   ELSE tally
     /\ sweep' = IF sent
                   THEN [sweep EXCEPT ![s].pc = "log",
                                      ![s].metrics = pushed,
                                      ![s].cur = Some([cur EXCEPT !.sent = TRUE,
                                                       !.notificationMethod = method])]
                   ELSE [sweep EXCEPT ![s] = NextUser([@ EXCEPT !.metrics = pushed])]

\* After a successful delivery: the insert into notification_log (ok: whether
\* it succeeds; a failure is only logged), then, on the fallback path, the
\* user's metrics entry.
BatchLog(s, ok) ==
  /\ sweep[s].pc = "log"
  /\ UNCHANGED <<status, enabled, is_active, recipe_cache, tally, received, started,
                 singleVars, pureVars>>
  /\ LET cur == sweep[s].cur[1]
         userId == cur.userId
         fallbackMetric == Metric(userId, Len(cur.ingredients), FALSE,
                                  cur.notificationMethod, AIFailedError)
         pushed == IF cur.kind = "fallback"
                     THEN Append(sweep[s].metrics, fallbackMetric)
                     ELSE sweep[s].metrics
     IN
     /\ notification_log' = IF ok
                              THEN Append(notification_log,
                                          LogRow(userId, cur.items, cur.hash))
                              ELSE notification_log
     /\ calls' = [calls EXCEPT ![s].logAttempt = @ + 1,
                               ![s].logged = IF ok THEN @ + 1 ELSE @]
     /\ sweep' = [sweep EXCEPT ![s] = NextUser([@ EXCEPT !.metrics = pushed])]

\* the loop is over: the summary response
FinishSweep(s) ==
  /\ sweep[s].pc = "users"
  /\ sweep[s].todo = <<>>
  /\ sweep' = [sweep EXCEPT ![s].pc = "done",
                            ![s].response = Some(Summary(sweep[s].items, sweep[s].metrics))]
  /\ UNCHANGED <<storeVars, calls, tally, received, started, singleVars, pureVars>>

\* the response is out and the invocation is over: its locals are gone
EndSweep(s) ==
  /\ sweep[s].pc = "done"
  /\ sweep' = [sweep EXCEPT ![s] = IdleSweep]
  /\ calls' = [calls EXCEPT ![s] = NoCalls]
  /\ tally' = [tally EXCEPT ![s] = NoTally]
  /\ UNCHANGED <<storeVars, received, started, singleVars, pureVars>>

NextBatch ==
  \/ \E s \in Cron, cred \in Credentials, queryOk \in BOOLEAN :
       StartSweep(s, cred, queryOk)
  \/ \E s \in Cron, throws \in BOOLEAN, ai \in SweepOutcomes,
        storeOk \in BOOLEAN :
       BatchPrepare(s, throws, ai, storeOk)
  \/ \E s \in Cron, emailOk \in BOOLEAN :
       \E out \in [CurSubscriptions(s) -> PushOutcomes] : BatchDeliver(s, out, emailOk)
  \/ \E s \in Cron, ok \in BOOLEAN : BatchLog(s, ok)
  \/ \E s \in Cron : FinishSweep(s)
  \/ \E s \in Cron : EndSweep(s)
  \/ \E i \in ItemIds : UseItem(i)

Spec == Init /\ [][NextBatch]_vars

\* Sweeps, and then on-demand requests (while no sweep is at work): valid credentials, item queries that
\* succeed and no thrown query, with the provider, the cache insert, the
\* transports and the log insert free to fail.
NextStore ==
  \/ \E u \in Users, ai \in SweepOutcomes, storeOk \in BOOLEAN :
       /\ \A s \in Sweeps : sweep[s].pc \in {"idle", "done"}
       /\ requests < MaxStoreRequests
       /\ SingleRequest(u, "user", TRUE, ai, storeOk)
  \/ \E s \in Cron : requests = 0 /\ StartSweep(s, "service", TRUE)
  \/ \E s \in Cron, ai \in SweepOutcomes, storeOk \in BOOLEAN :
       BatchPrepare(s, FALSE, ai, storeOk)
  \/ \E s \in Cron, emailOk \in BOOLEAN :
       \E out \in [CurSubscriptions(s) -> PushOutcomes] : BatchDeliver(s, out, emailOk)
  \/ \E s \in Cron, ok \in BOOLEAN : BatchLog(s, ok)
  \/ \E s \in Cron : FinishSweep(s)
  \/ \E s \in Cron : EndSweep(s)

SpecStore == Init /\ [][NextStore]_vars

\* Two invocations with the service role key at work at once (the scheduler's
\* and a second one, nothing in the function serialises them): every query and
\* every insert succeeds and the provider answers; the transports may fail.
InitRace ==
  /\ Quiet
  /\ enabled = [u \in Users |-> TRUE]
  /\ input = Null
  /\ output = Null

NextRace ==
  \/ \E s \in Sweeps : BeginSweep(s, "service", TRUE)
  \/ \E s \in Sweeps, ai \in {o \in SweepOutcomes : o.ok} :
       BatchPrepare(s, FALSE, ai, TRUE)
  \/ \E s \in Sweeps, emailOk \in BOOLEAN :
       \E out \in [CurSubscriptions(s) -> PushOutcomes] : BatchDeliver(s, out, emailOk)
  \/ \E s \in Sweeps : BatchLog(s, TRUE)
  \/ \E s \in Sweeps : FinishSweep(s)
  \/ \E s \in Sweeps : EndSweep(s)

SpecRace == InitRace /\ [][NextRace]_vars

----------------------------------------------------------------------------
(* helpers.ts applied to item names *)

\* two lists of item names, to be fingerprinted
InitHash ==
  /\ Quiet
  /\ enabled = [u \in Users |-> FALSE]
  /\ input \in {Some(<<a, b>>) : a, b \in NameLists(MaxNames)}
  /\ output = Null

\* buildIngredientList and then generateIngredientHash, on both lists
Fingerprint ==
  /\ input # Null
  /\ output = Null
  /\ output' = Some([k \in 1..2 |->
                      generateIngredientHash(
                        buildIngredientList(ItemsNamed(input[1][k])))])
  /\ UNCHANGED <<storeVars, batchVars, singleVars, input>>

NextHash == Fingerprint

SpecHash == InitHash /\ [][NextHash]_vars

\* item names that are blank, or that hold the delimiter of the canonical string
KeyNames ==
  {<<"e">>, <<"g">>, <<"e", "|", "g">>, <<"\t">>, <<" ", " ">>}

KeyNameLists(n) == UNION {[1..k -> KeyNames] : k \in 0..n}

InitKey ==
  /\ Quiet
  /\ enabled = [u \in Users |-> FALSE]
  /\ input \in {Some(<<a, b>>) : a, b \in KeyNameLists(MaxNames)}
  /\ output = Null

\* the ingredient list and the fingerprint of both lists, as the handler
\* computes them from the rows of its query
Normalize ==
  /\ input # Null
  /\ output = Null
  /\ output' = Some([k \in 1..2 |->
                      LET ingredients == buildIngredientList(ItemsNamed(input[1][k]))
                      IN  [ingredients |-> ingredients,
                           hash |-> generateIngredientHash(ingredients)]])
  /\ UNCHANGED <<storeVars, batchVars, singleVars, input>>

NextKey == Normalize

SpecKey == InitKey /\ [][NextKey]_vars

----------------------------------------------------------------------------
(* cache.ts on its own: stores and lookups in any order *)

CacheHashes ==
  {generateIngredientHash(<< <<"e", "g", "g", "s">> >>),
   generateIngredientHash(<< <<"m", "i", "l", "k">> >>)}

\* storeInCache for one of the hashes; the insert may fail
CacheStore(hash, recipes, ok) ==
  /\ Len(recipe_cache) < MaxStores
  /\ recipe_cache' = storeInCache(recipe_cache, hash, <<>>, recipes, ok)
  /\ UNCHANGED <<status, enabled, is_active, notification_log,
                 batchVars, singleVars, pureVars>>

\* checkCache for one of the hashes: output keeps what it returned and the
\* number of rows the table held, input keeps the lookup before it
CacheLookup(hash) ==
  /\ output' = Some([hash |-> hash, at |-> Len(recipe_cache),
                     recipes |-> checkCache(recipe_cache, hash)])
  /\ input' = output
  /\ UNCHANGED <<storeVars, batchVars, singleVars>>

NextCache ==
  \/ \E hash \in CacheHashes, recipes \in RecipeSets, ok \in BOOLEAN :
       CacheStore(hash, recipes, ok)
  \/ \E hash \in CacheHashes : CacheLookup(hash)

InitCache ==
  /\ Quiet
  /\ enabled = [u \in Users |-> FALSE]
  /\ input = Null
  /\ output = Null

SpecCache == InitCache /\ [][NextCache]_vars

----------------------------------------------------------------------------
(* lib/utils/dateHelpers.ts *)

\* Time is counted in hours since the UTC midnight of day 0, a calendar date
\* is its day number, and a time zone is its offset from UTC in hours (taken
\* as fixed: no daylight saving change between the two dates).
HoursPerDay == 24

TimeZones == {0 - 5, 0, 8}

\* the dates of the items: from two days before day 10 to a week after it
ExpiryDates == 8..17

\* the instants the clock may show: hours of day 10 and the first of day 11
ClockHours == {240, 246, 252, 263, 264}

\* new Date('YYYY-MM-DD'): a date-only string is the UTC midnight of that day
parseDateOnly(date) == date * HoursPerDay

\* the calendar date a clock in the zone shows at the instant
LocalDate(instant, zone) == (instant + zone) \div HoursPerDay

\* Date.prototype.setHours(0, 0, 0, 0): the local midnight of the local date
setHoursZero(instant, zone) == LocalDate(instant, zone) * HoursPerDay - zone

\* Math.ceil(a / b) for b > 0
Ceil(a, b) == 0 - ((0 - a) \div b)

getDaysUntilExpiry(expiryDate, now, zone) ==
  LET today == setHoursZero(now, zone)
      expiry == setHoursZero(parseDateOnly(expiryDate), zone)
      diffTime == expiry - today
  IN  Ceil(diffTime, HoursPerDay)

getUrgencyLevel(expiryDate, now, zone) ==
  LET days == getDaysUntilExpiry(expiryDate, now, zone)
  IN  IF days < 0 THEN "expired"
      ELSE IF days <= 2 THEN "urgent"
      ELSE IF days <= 5 THEN "soon"
      ELSE "safe"

categorizeFoodItems(items, now, zone) ==
  LET Urgent(item) == getUrgencyLevel(item.expiry_date, now, zone) = "urgent"
      Soon(item) == getUrgencyLevel(item.expiry_date, now, zone) = "soon"
      Safe(item) == getUrgencyLevel(item.expiry_date, now, zone) = "safe"
  IN  [urgent |-> SelectSeq(items, Urgent),
       soon |-> SelectSeq(items, Soon),
       safe |-> SelectSeq(items, Safe)]

\* lists of at most n items, each with its own id
ItemLists(n) ==
  UNION {{[i \in 1..k |-> [id |-> i, expiry_date |-> dates[i]]] :
            dates \in [1..k -> ExpiryDates]} : k \in 0..n}

InitDates ==
  /\ Quiet
  /\ enabled = [u \in Users |-> FALSE]
  /\ input \in {Some([items |-> items, now |-> now, zone |-> zone]) :
                  items \in ItemLists(MaxItems), now \in ClockHours,
                  zone \in TimeZones}
  /\ output = Null

Categorize ==
  /\ input # Null
  /\ output = Null
  /\ output' = Some(categorizeFoodItems(input[1].items, input[1].now, input[1].zone))
  /\ UNCHANGED <<storeVars, batchVars, singleVars, input>>

NextDates == Categorize

SpecDates == InitDates /\ [][NextDates]_vars

----------------------------------------------------------------------------
(* lib/utils/validation.ts *)

NameLimit == 100
NotesLimit == 500
QuantityLimit == 99999
TwoYears == 2

\* the string of n characters c
Repeat(c, n) == [i \in 1..n |-> c]

FormNames ==
  {<<>>, <<" ", "\t">>, <<"M", "i", "l", "k">>, Repeat("a", NameLimit),
   Repeat("a", NameLimit + 1), <<" ">> \o Repeat("a", NameLimit) \o <<" ">>}

FormNotes == {<<>>, Repeat("n", NotesLimit), Repeat("n", NotesLimit + 1)}

\* the quantity field with what parseFloat makes of it
FormQuantities ==
  {[text |-> "", isNaN |-> TRUE, amount |-> 0],
   [text |-> "2", isNaN |-> FALSE, amount |-> 2],
   [text |-> "-1", isNaN |-> FALSE, amount |-> 0 - 1],
   [text |-> "abc", isNaN |-> TRUE, amount |-> 0],
   [text |-> "99999", isNaN |-> FALSE, amount |-> QuantityLimit],
   [text |-> "100000", isNaN |-> FALSE, amount |-> QuantityLimit + 1]}

\* the expiry date field: empty, or a date so many years and days after now
FormDates ==
  {[text |-> "", years |-> 0, days |-> 0], [text |-> "date", years |-> 0, days |-> 5],
   [text |-> "date", years |-> TwoYears - 1, days |-> 300],
   [text |-> "date", years |-> TwoYears, days |-> 1]}

\* expiry > twoYearsFromNow
AfterTwoYears(date) ==
  date.years > TwoYears \/ (date.years = TwoYears /\ date.days > 0)

\* the brand field: absent, or a string
FormBrands ==
  {Null, Some(<<>>), Some(Repeat("b", NameLimit)), Some(Repeat("b", NameLimit + 1))}

FormFields ==
  [name : FormNames, notes : FormNotes, quantityAmount : FormQuantities,
   expiry_date : FormDates, brand : FormBrands]

\* the errors object: a property is null until an error is set on it; no
\* statement sets errors.brand
validateFoodItemForm(fields) ==
  LET trimmedName == Trim(fields.name)
      amount == fields.quantityAmount.amount
  IN  [name |->
         IF trimmedName = <<>> THEN Some("Item name is required")
         ELSE IF Len(trimmedName) > NameLimit
           THEN Some("Item name must be 100 characters or less")
           ELSE Null,
       notes |->
         IF fields.notes # <<>> /\ Len(fields.notes) > NotesLimit
           THEN Some("Notes must be 500 characters or less")
           ELSE Null,
       quantityAmount |->
         IF fields.quantityAmount.text = "" THEN Null
         ELSE IF fields.quantityAmount.isNaN \/ amount < 0
           THEN Some("Quantity must be a positive number")
         ELSE IF amount > QuantityLimit
           THEN Some("Quantity must be 99,999 or less")
           ELSE Null,
       expiry_date |->
         IF fields.expiry_date.text # "" /\ AfterTwoYears(fields.expiry_date)
           THEN Some("Expiry date cannot be more than 2 years from today")
           ELSE Null,
       brand |-> Null]

InitForm ==
  /\ Quiet
  /\ enabled = [u \in Users |-> FALSE]
  /\ input \in {Some(fields) : fields \in FormFields}
  /\ output = Null

ValidateForm ==
  /\ input # Null
  /\ output = Null
  /\ output' = Some(validateFoodItemForm(input[1]))
  /\ UNCHANGED <<storeVars, batchVars, singleVars, input>>

NextForm == ValidateForm

SpecForm == InitForm /\ [][NextForm]_vars

----------------------------------------------------------------------------
(* openai.ts: validation of the provider's parsed JSON *)

\* a JSON value that is not an object: its type and the text String() gives
JsString(text) == [type |-> "string", text |-> text]
JsNumber(text) == [type |-> "number", text |-> text]

String(v) == v.text

\* an optional value is falsy when absent, the empty string or the number 0
Falsy(v) ==
  \/ v = Null
  \/ v[1].type = "string" /\ v[1].text = ""
  \/ v[1].type = "number" /\ v[1].text = "0"

\* a property holding an array, something that is not an array, or nothing
JsArray(items) == [kind |-> "array", items |-> items]
JsText == [kind |-> "text", items |-> <<>>]
JsMissing == [kind |-> "missing", items |-> <<>>]

\* the entries a provider puts into its recipe list; the last one is null
RecipeEntries ==
  { [isNull |-> FALSE, title |-> Some(JsString("Soup")),
     description |-> Some(JsString("Warm")),
     steps |-> JsArray(<<JsString("boil"), JsNumber("2")>>),
     ingredients_used |-> JsArray(<<JsString("milk")>>)],
    [isNull |-> FALSE, title |-> Null, description |-> Null,
     steps |-> JsMissing, ingredients_used |-> JsMissing],
    [isNull |-> FALSE, title |-> Some(JsString("")),
     description |-> Some(JsString("Cold")),
     steps |-> JsText, ingredients_used |-> JsArray(<<>>)],
    [isNull |-> TRUE, title |-> Null, description |-> Null,
     steps |-> JsMissing, ingredients_used |-> JsMissing] }

EntryLists(n) == UNION {[1..k -> RecipeEntries] : k \in 0..n}

\* the value JSON.parse returns: an array, an object whose recipes property
\* is an array or not, or null
ParsedResponses(n) ==
  {[top |-> t, list |-> Some(l)] : t \in {"array", "object"}, l \in EntryLists(n)}
    \cup {[top |-> "object", list |-> Null], [top |-> "null", list |-> Null]}

\* recipes kept of one response
RecipeLimit == 3

DefaultTitle == "Untitled Recipe"
DefaultDescription == "A quick recipe with your expiring ingredients."

\* (mutant) an absent value becomes the empty text
OrDefault_Empty(v, default) == IF v = Null THEN "" ELSE String(v[1])

\* String(v || default)
OrDefault(v, default) == IF Falsy(v) THEN default ELSE String(v[1])

\* Array.isArray(v) ? v.map(String) : []
StringsOf(v) ==
  IF v.kind = "array" THEN [i \in 1..Len(v.items) |-> String(v.items[i])] ELSE <<>>

validateRecipe(r) ==
  [title |-> OrDefault(r.title, DefaultTitle),
   description |-> OrDefault(r.description, DefaultDescription),
   steps |-> StringsOf(r.steps),
   ingredients_used |-> StringsOf(r.ingredients_used)]

\* (mutant) every entry is kept
sliceRecipes_All(recipes) == recipes

\* recipes.slice(0, 3)
sliceRecipes(recipes) ==
  SubSeq(recipes, 1, IF Len(recipes) < RecipeLimit THEN Len(recipes) ELSE RecipeLimit)

AdapterError(message) == [ok |-> FALSE, error |-> message, recipes |-> <<>>]

\* the recipes of a parsed response, or the error the adapter throws; reading
\* a property of null raises a TypeError
parseRecipes(parsed) ==
  IF parsed.top = "null"
    THEN AdapterError("TypeError")
  ELSE IF parsed.list = Null \/ Len(parsed.list[1]) = 0
    THEN AdapterError("OpenAI response did not contain a valid recipes array")
  ELSE LET kept == sliceRecipes(parsed.list[1])
       IN  IF \E i \in 1..Len(kept) : kept[i].isNull
             THEN AdapterError("TypeError")
             ELSE [ok |-> TRUE, error |-> "",
                   recipes |-> [i \in 1..Len(kept) |-> validateRecipe(kept[i])]]

InitAdapter ==
  /\ Quiet
  /\ enabled = [u \in Users |-> FALSE]
  /\ input \in {Some(p) : p \in ParsedResponses(MaxEntries)}
  /\ output = Null

Validate ==
  /\ input # Null
  /\ output = Null
  /\ output' = Some(parseRecipes(input[1]))
  /\ UNCHANGED <<storeVars, batchVars, singleVars, input>>

NextAdapter == Validate

SpecAdapter == InitAdapter /\ [][NextAdapter]_vars

----------------------------------------------------------------------------
(* Properties of the batch sweep *)

\* the sweep has taken a user up, and has finished with the user
Taken(s) == calls[s].user # ""
UserDone(s) == Taken(s) /\ sweep[s].pc \in {"users", "done"}

\* delivery attempts made for the user
Attempts(s) ==
  calls[s].pushNormal + calls[s].pushFallback + calls[s].emailNormal
    + calls[s].emailFallback

\* the user could be notified: enabled, with ingredients and a channel, and
\* the loop body did not throw
Eligible(s) ==
  /\ ~calls[s].threw
  /\ calls[s].notifEnabled
  /\ calls[s].ingredients # <<>>
  /\ calls[s].hasPush \/ calls[s].hasEmail

\* rows of notification_log for a user and hash, of category recipe_suggestion
RowsFor(u, h) ==
  Cardinality({k \in 1..Len(notification_log) :
                 /\ notification_log[k].user_id = u
                 /\ notification_log[k].notification_type = "recipe_suggestion"
                 /\ notification_log[k].ingredient_hash = h})

\* deliveries that succeeded and whose log insert is still to come
Pending(u, h) ==
  Cardinality({s \in Sweeps : /\ sweep[s].pc = "log"
                              /\ sweep[s].cur[1].userId = u
                              /\ sweep[s].cur[1].hash = h})

LoggedHashes ==
  {notification_log[k].ingredient_hash : k \in 1..Len(notification_log)}
    \cup {sweep[s].cur[1].hash : s \in {t \in Sweeps : sweep[t].pc = "log"}}

C4_FallbackLedger ==
  \A s \in Sweeps :
    (UserDone(s) /\ calls[s].providerFailed /\ calls[s].hasPush) =>
      /\ calls[s].pushFallback = 1
      /\ calls[s].pushNormal = 0
      /\ calls[s].emailNormal = 0 /\ calls[s].emailFallback = 0
      /\ calls[s].logged = IF calls[s].delivered THEN 1 ELSE 0

\* C4 amended: ... one fan-out is made, with the fallback payload (no normal
\* payload, no email); one insert of a log row is attempted if the fan-out
\* succeeded and none if it did not, and the row is appended unless that
\* insert fails.
C4_FallbackAttempt ==
  \A s \in Sweeps :
    (UserDone(s) /\ calls[s].providerFailed /\ calls[s].hasPush) =>
      /\ calls[s].pushFallback = 1
      /\ calls[s].pushNormal = 0
      /\ calls[s].emailNormal = 0 /\ calls[s].emailFallback = 0
      /\ calls[s].logAttempt = IF calls[s].delivered THEN 1 ELSE 0
      /\ calls[s].logged <= calls[s].logAttempt
      /\ calls[s].logged = RowsFor(calls[s].user, calls[s].hash)

C4_Witness ==
  \E s \in Sweeps :
    /\ UserDone(s) /\ calls[s].providerFailed /\ calls[s].hasPush
    /\ calls[s].hasEmail
    /\ calls[s].delivered /\ calls[s].logged = 1

IsSummary(s) ==
  /\ sweep[s].pc = "done"
  /\ sweep[s].response[1].status = 200
  /\ sweep[s].response[1].usersProcessed > 0

\* C5 as stated: every user for whom the provider failed is counted in
\* totalFallbacks and in totalErrors.
C5_BothBuckets ==
  \A s \in Sweeps :
    IsSummary(s) =>
      /\ sweep[s].response[1].totalFallbacks = tally[s].providerFailed
      /\ sweep[s].response[1].totalErrors >= tally[s].providerFailed

\* C5 amended: every user for whom the provider failed is counted in
\* totalFallbacks and has an error text in the per-user results, but is not
\* counted in totalErrors, which counts only the other entries with an error.
C5_FallbackBucketOnly ==
  \A s \in Sweeps :
    IsSummary(s) =>
      LET r == sweep[s].response[1]
          withError == {k \in 1..Len(r.results) : r.results[k].error # <<>>}
      IN  /\ r.totalFallbacks = tally[s].providerFailed
          /\ Cardinality(withError) >= tally[s].providerFailed
          /\ r.totalErrors = Cardinality(withError) - tally[s].providerFailed

C5_Witness ==
  \E s \in Sweeps :
    /\ IsSummary(s)
    /\ tally[s].providerFailed = 2
    /\ sweep[s].response[1].totalFallbacks = 2

----------------------------------------------------------------------------
(* Properties of the on-demand request *)

\* an on-demand request has been answered
Answered == request.user # ""

\* rows of notification_log that record an on-demand response
SingleRows(u, h) ==
  {k \in 1..Len(notification_log) :
     /\ notification_log[k].user_id = u
     /\ notification_log[k].notification_type = "recipe_suggestion_single"
     /\ notification_log[k].ingredient_hash = h}

\* C6: no user is served more than DailyLimit on-demand requests in a day:
\* a request of a user who has been served DailyLimit times is rejected before
\* any work is done.
C6_RateLimit ==
  \A u \in Users : served[u] <= DailyLimit

\* C7: every on-demand request that returns recipes appends one
\* notification_log row of category recipe_suggestion_single.
C7_SingleLedgerEntry ==
  (Answered /\ request.status = 200 /\ request.body[1].recipes # <<>>) =>
    SingleRows(request.user, request.hash) # {}

\* C8: an on-demand request of a user with no active item expiring in the
\* window gets a non-error answer with no recipes, no ingredients,
\* cached = false and a message; the provider is not called, and recipe_cache
\* and notification_log are left as they were.
C8_EmptyInput ==
  [][(requests' = requests + 1 /\ request'.fetched /\ request'.rows = 0) =>
       /\ request'.status = 200
       /\ request'.body[1].error = ""
       /\ request'.body[1].recipes = <<>>
       /\ request'.body[1].ingredients = <<>>
       /\ request'.body[1].cached = FALSE
       /\ request'.body[1].message # ""
       /\ request'.lookup = 0 /\ request'.provider = 0 /\ request'.store = 0
       /\ recipe_cache' = recipe_cache
       /\ notification_log' = notification_log]_vars

C8_Witness ==
  /\ Answered /\ request.fetched /\ request.rows = 0
  /\ request.status = 200
  /\ recipe_cache # <<>>

C10_ProviderFailure ==
  (Answered /\ request.providerFailed) =>
    /\ request.status = 500
    /\ request.body[1].error # ""
    /\ request.body[1].recipes = <<>>
    /\ request.store = 0
    /\ \A k \in 1..Len(recipe_cache) : recipe_cache[k].ingredient_hash # request.hash
    /\ \A k \in 1..Len(notification_log) : notification_log[k].user_id # request.user
    /\ received = EmptyBag

C10_Witness ==
  /\ Answered /\ request.providerFailed
  /\ request.status = 500
  /\ recipe_cache # <<>>

----------------------------------------------------------------------------
(* Properties of sweeps and on-demand requests together *)

\* the entry the sweep pushed last onto its metrics
LastMetric(s) == sweep[s].metrics[Len(sweep[s].metrics)]

\* C11: when the cache insert fails after the provider gave recipes, nothing
\* is raised: the on-demand request answers 200 with the generated recipes,
\* cached = false and no error; the sweep sends the normal payload with the
\* generated recipes (no fallback) and the user's metrics entry has no error.
C11_StoreFailureSwallowed ==
  /\ (Answered /\ request.store = 1 /\ request.storeFailed) =>
       /\ request.status = 200
       /\ request.body[1].error = ""
       /\ request.body[1].cached = FALSE
       /\ request.body[1].recipes = request.generated
       /\ request.generated # <<>>
  /\ \A s \in Sweeps :
       (Taken(s) /\ calls[s].store = 1 /\ calls[s].storeFailed) =>
         /\ calls[s].pushFallback = 0 /\ calls[s].emailFallback = 0
         /\ sweep[s].pc \in {"deliver", "log"} =>
              /\ sweep[s].cur[1].kind = "normal"
              /\ sweep[s].cur[1].recipes = calls[s].generated
              /\ calls[s].generated # <<>>
         /\ UserDone(s) =>
              /\ calls[s].pushNormal + calls[s].emailNormal = 1
              /\ sweep[s].metrics # <<>>
              /\ LastMetric(s).userId = calls[s].user
              /\ LastMetric(s).error = <<>>
              /\ LastMetric(s).cacheHit = FALSE

C11_Witness ==
  /\ Answered /\ request.store = 1 /\ request.storeFailed
  /\ request.status = 200
  /\ \E s \in Sweeps :
       /\ UserDone(s) /\ calls[s].store = 1 /\ calls[s].storeFailed
       /\ calls[s].delivered

----------------------------------------------------------------------------
(* Properties of the batch sweep, continued *)

\* no collaborator was called for the user
NoWork(s) ==
  /\ calls[s].lookup = 0 /\ calls[s].provider = 0 /\ calls[s].store = 0
  /\ Attempts(s) = 0
  /\ calls[s].logAttempt = 0 /\ calls[s].logged = 0
  /\ sweep[s].pc \notin {"deliver", "log"}

C13_BatchAuth ==
  \A s \in Sweeps :
    (sweep[s].pc # "idle" /\ sweep[s].cred # "service") =>
      /\ sweep[s].pc = "done"
      /\ sweep[s].response[1].status = IF sweep[s].cred = "none" THEN 401 ELSE 403
      /\ sweep[s].response[1].error # ""
      /\ sweep[s].response[1].results = <<>>
      /\ ~sweep[s].queried
      /\ sweep[s].items = <<>> /\ sweep[s].metrics = <<>>
      /\ calls[s] = NoCalls
      /\ tally[s] = NoTally

C13_Witness ==
  \E s \in Sweeps :
    /\ sweep[s].pc = "done" /\ sweep[s].cred = "user"
    /\ sweep[s].response[1].status = 403
    /\ ExpiringItems # <<>>
    /\ \E u \in Users : enabled[u]

\* C14: a user whose notifications are disabled, or who has neither an active
\* push subscription nor an email address, is passed over: no cache lookup, no
\* provider call, no delivery attempt, no cache insert and no log insert.
C14_DisabledOrUnreachable ==
  \A s \in Sweeps :
    (Taken(s) /\ (~calls[s].notifEnabled
                    \/ (~calls[s].hasPush /\ ~calls[s].hasEmail))) =>
      /\ NoWork(s)
      /\ calls[s].out = <<>>
      /\ ~calls[s].delivered

C14_Witness ==
  \E s \in Sweeps :
    /\ UserDone(s) /\ ~calls[s].threw
    /\ calls[s].notifEnabled
    /\ ~calls[s].hasPush /\ ~calls[s].hasEmail
    /\ calls[s].ingredients # <<>> /\ ~calls[s].hadEntry

PushAttempts(s) == calls[s].pushNormal + calls[s].pushFallback
EmailAttempts(s) == calls[s].emailNormal + calls[s].emailFallback

FannedOut(s) == Taken(s) /\ PushAttempts(s) = 1

\* the handler took the delivery as successful (it went on to the log insert)
TakenAsSent(s) == sweep[s].pc = "log" \/ calls[s].logAttempt = 1

\* C16: after a push fan-out every endpoint that answered 410 Gone is
\* inactive, whether or not another endpoint succeeded; every other endpoint
\* has the active flag it had before; and the fan-out is taken as successful
\* exactly when at least one endpoint succeeded.
C16_FanOut ==
  \A s \in Sweeps :
    FannedOut(s) =>
      /\ DOMAIN calls[s].out =
           {e \in calls[s].activeBefore : EndpointUser(e) = calls[s].user}
      /\ \A e \in DOMAIN calls[s].out : calls[s].out[e] = "gone" => ~is_active[e]
      /\ \A e \in Endpoints :
           (e \notin DOMAIN calls[s].out \/ calls[s].out[e] # "gone") =>
             (is_active[e] <=> e \in calls[s].activeBefore)
      /\ TakenAsSent(s) <=> \E e \in DOMAIN calls[s].out : calls[s].out[e] = "ok"

C16_Witness ==
  \E s \in Sweeps :
    /\ FannedOut(s)
    /\ \E e, f \in DOMAIN calls[s].out :
         /\ calls[s].out[e] = "gone" /\ calls[s].out[f] = "error"
         /\ ~is_active[e] /\ is_active[f]
    /\ ~TakenAsSent(s)

\* C17: a sweep inserts a recipe_suggestion log row for a user and hash only
\* after a delivery to that user succeeded in the same sweep (an endpoint
\* accepted the push, or the email transport answered success); when every
\* attempt failed no insert is made.  The row carries the user and the hash.
C17_LoggedAfterDelivery ==
  /\ \A s \in Sweeps :
       Taken(s) =>
         /\ calls[s].logAttempt = 1 => calls[s].delivered
         /\ sweep[s].pc = "log" => calls[s].delivered
         /\ calls[s].logged <= calls[s].logAttempt
         /\ calls[s].delivered =>
              \/ \E e \in DOMAIN calls[s].out : calls[s].out[e] = "ok"
              \/ calls[s].emailOk
         /\ calls[s].logged = 1 =>
              /\ notification_log # <<>>
              /\ notification_log[Len(notification_log)].user_id = calls[s].user
              /\ notification_log[Len(notification_log)].ingredient_hash = calls[s].hash
  /\ \A u \in Users : \A h \in LoggedHashes :
       RowsFor(u, h) <= CopiesIn(<<u, h>>, received)

C17_Witness ==
  \E s \in Sweeps :
    /\ UserDone(s) /\ calls[s].delivered /\ calls[s].emailOk
    /\ calls[s].logged = 1
    /\ RowsFor(calls[s].user, calls[s].hash) = 1

\* C18: the summary's totalAICalls is the number of calls made to the
\* provider during the sweep.
C18_AICallsCounted ==
  \A s \in Sweeps :
    IsSummary(s) => sweep[s].response[1].totalAICalls = tally[s].provider

\* C19: the summary's totalPushSent and totalEmailSent are the numbers of
\* users to whom the normal payload was delivered by push and by email.
C19_SentCounted ==
  \A s \in Sweeps :
    IsSummary(s) =>
      /\ sweep[s].response[1].totalPushSent = tally[s].pushOk
      /\ sweep[s].response[1].totalEmailSent = tally[s].emailOk

----------------------------------------------------------------------------
(* Properties of the helpers *)

\* the set of names of a list after trimming and lowercasing
NormalizedNames(names) == {ToLowerCase(Trim(names[i])) : i \in 1..Len(names)}

\* C20: two lists of item names with the same set of names after trimming
\* and lowercasing (whatever their case, surrounding white space, order and
\* repetitions) get the same fingerprint from buildIngredientList followed by
\* generateIngredientHash.
C20_SameSetSameHash ==
  output # Null =>
    (NormalizedNames(input[1][1]) = NormalizedNames(input[1][2])
       => output[1][1] = output[1][2])

C20_Witness ==
  /\ output # Null
  /\ Len(input[1][1]) = 2 /\ Len(input[1][2]) = 2
  /\ input[1][1][1] # input[1][2][1] /\ input[1][1][1] # input[1][2][2]
  /\ input[1][1][2] # input[1][2][1] /\ input[1][1][2] # input[1][2][2]
  /\ Cardinality(NormalizedNames(input[1][1])) = 2
  /\ ToLowerCase(Trim(input[1][1][1])) = ToLowerCase(Trim(input[1][2][2]))
  /\ ToLowerCase(Trim(input[1][1][2])) = ToLowerCase(Trim(input[1][2][1]))
  /\ output[1][1] = output[1][2]

----------------------------------------------------------------------------
\* C21: two ingredient lists with different member names have different
\* canonical strings (names joined with "|") and so different fingerprints:
\* no two distinct ingredient sets share a cache key or a dedup key.
C21_DistinctSetsDistinctKeys ==
  output # Null =>
    (output[1][1].ingredients # output[1][2].ingredients
       => output[1][1].hash # output[1][2].hash)

\* C22: buildIngredientList returns the empty sequence when every item name
\* is empty after trimming (and when there is no item at all), which is what
\* the "no valid ingredients" answer and the sweep's skip test for.
C22_BlankNamesGiveEmptyList ==
  output # Null =>
    \A k \in 1..2 :
      (\A i \in 1..Len(input[1][k]) : Trim(input[1][k][i]) = <<>>)
        => output[1][k].ingredients = <<>>

\* the entries of the parsed recipe list, when the response holds one
ParsedList == IF input[1].list = Null THEN <<>> ELSE input[1].list[1]

\* C23: the adapter succeeds only on a recipe list of n >= 1 entries and then
\* returns min(n, 3) recipes, the first ones in their order; an empty or
\* non-array list gives an error; a successful result has 1 to 3 recipes.
C23_FirstThreeRecipes ==
  output # Null =>
    LET n == Len(ParsedList)
        out == output[1]
    IN  /\ (input[1].list = Null \/ n = 0) => ~out.ok
        /\ out.ok =>
             /\ n >= 1
             /\ Len(out.recipes) = (IF n < 3 THEN n ELSE 3)
             /\ Len(out.recipes) \in 1..3
             /\ \A i \in 1..Len(out.recipes) :
                  out.recipes[i] = validateRecipe(ParsedList[i])

C23_Witness ==
  /\ output # Null
  /\ Len(ParsedList) = 4
  /\ ParsedList[1] # ParsedList[2] /\ ParsedList[2] # ParsedList[3]
  /\ output[1].ok
  /\ Len(output[1].recipes) = 3

\* C24: in every recipe the adapter keeps, a missing title becomes
\* "Untitled Recipe", a missing description the placeholder sentence, and a
\* missing or non-array steps or ingredients_used an empty list; no such
\* entry makes the adapter fail.
C24_DefaultsForMissingFields ==
  output # Null =>
    LET out == output[1]
        n == IF Len(ParsedList) < 3 THEN Len(ParsedList) ELSE 3
    IN  /\ (n >= 1 /\ \A i \in 1..n : ~ParsedList[i].isNull) => out.ok
        /\ out.ok =>
             \A i \in 1..Len(out.recipes) :
               /\ ParsedList[i].title = Null
                    => out.recipes[i].title = "Untitled Recipe"
               /\ ParsedList[i].description = Null
                    => out.recipes[i].description
                         = "A quick recipe with your expiring ingredients."
               /\ ParsedList[i].steps.kind # "array"
                    => out.recipes[i].steps = <<>>
               /\ ParsedList[i].ingredients_used.kind # "array"
                    => out.recipes[i].ingredients_used = <<>>

C24_Witness ==
  /\ output # Null
  /\ output[1].ok
  /\ \E i \in 1..Len(output[1].recipes) :
       /\ ParsedList[i].title = Null
       /\ ParsedList[i].steps.kind = "missing"
       /\ output[1].recipes[i].title = "Untitled Recipe"
       /\ output[1].recipes[i].steps = <<>>
  /\ \E i \in 1..Len(output[1].recipes) :
       /\ ParsedList[i].steps.kind = "text"
       /\ output[1].recipes[i].steps = <<>>

BucketsOf(item) ==
  {b \in {"urgent", "soon", "safe"} :
     \E i \in 1..Len(output[1][b]) : output[1][b][i].id = item.id}

\* whole days from the user's calendar date to the expiry date
DaysLeft(item) == item.expiry_date - LocalDate(input[1].now, input[1].zone)

\* C26: categorizeFoodItems puts an item with 0-2 days until expiry in
\* urgent, 3-5 days in soon, more than 5 days in safe, and an item whose
\* expiry date is before today in no bucket; a non-expired item is in
\* exactly one bucket.
C26_BucketsByDaysLeft ==
  output # Null =>
    \A i \in 1..Len(input[1].items) :
      LET item == input[1].items[i]
          days == DaysLeft(item)
      IN  BucketsOf(item) =
            (IF days < 0 THEN {}
             ELSE IF days <= 2 THEN {"urgent"}
             ELSE IF days <= 5 THEN {"soon"}
             ELSE {"safe"})

\* C27: validateFoodItemForm reports no brand error for an absent, empty or
\* at most 100-character brand, and the error "Brand must be 100 characters
\* or less" for a longer brand.
C27_BrandValidation ==
  output # Null =>
    LET brand == input[1].brand
    IN  IF brand # Null /\ Len(brand[1]) > 100
          THEN output[1].brand = Some("Brand must be 100 characters or less")
          ELSE output[1].brand = Null

\* the items the request's body asks for: the user's active items with the
\* listed identifiers, or else those expiring within expiryDays (1 to 30) days
RequestedItems ==
  LET u == request.user
      days == IF input[1].expiryDays < 1 THEN 1
              ELSE IF input[1].expiryDays > 30 THEN 30
              ELSE input[1].expiryDays
      Mine(i) == ItemRow(i).user_id = u /\ status[i] = "active"
  IN  IF input[1].itemIds # Null
        THEN {i \in input[1].itemIds[1] : Mine(i)}
        ELSE {i \in ItemIds : /\ Mine(i)
                              /\ ItemRow(i).expiry_date >= 0
                              /\ ItemRow(i).expiry_date <= days}

\* C28: an on-demand request with a list of item identifiers builds its
\* ingredient set from exactly the user's active items with those
\* identifiers, and a request with an expiry-window length from the user's
\* active items expiring within that many days.
C28_BodySelectsItems ==
  (input # Null /\ request.status = 200) =>
    request.body[1].ingredients
      = buildIngredientList(OrderByExpiry(RequestedItems))

\* the sweep computed the user's fingerprint: the user got past the tests
\* for the preference, the channels and the ingredients without an exception
Fingerprinted(s) == UserDone(s) /\ Eligible(s)

C30_OneDeliveryUnderRace ==
  \A s \in Sweeps :
    (Taken(s) /\ calls[s].delivered)
      => CopiesIn(<<calls[s].user, calls[s].hash>>, received) = 1

====
